---- MODULE Spec2Model ----
(***************************************************************************)
(* Fixed-window rate limiter of                                            *)
(* paystell-frontend/src/middleware/rateLimitMiddleware.ts.                *)
(*                                                                         *)
(* The module-level Map ipRequestMap is the only program state.  One call  *)
(* of rateLimitMiddleware is one atomic step (the function is async but    *)
(* has no await, so its body runs to completion on the JS event loop).     *)
(* Times are milliseconds, as returned by Date.now(), which may step back. *)
(*                                                                         *)
(* Spec: calls with any maxRequests and windowMs.  SpecDefault: calls with *)
(* the default parameters.  SpecRace: the body split at its read of the    *)
(* entry, for a host that runs calls concurrently.  SpecFixed: calls that  *)
(* all pass the same maxRequests and windowMs.  SpecMonotonic: SpecFixed   *)
(* with Date.now() never stepping back.                                    *)
(***************************************************************************)
EXTENDS Integers, FiniteSets, Sequences, Bags, TLC

VARIABLES
    ipRequestMap,   \* the Map<string, RateLimitData>: a function on the keys present
    response,       \* what the last completed call returned
    call,           \* history: the inputs of the last completed call
    windowStart,    \* history: per key, the inputs of the call that (re)started its window
    windowCalls,    \* history: per key, calls completed since (and with) that call
    scenario,       \* history: how far the call history follows the documented scenario
    pending,        \* SpecRace: the bag of calls that have read their entry and not yet written it back
    raceStarted,    \* SpecRace, history: the number of calls begun
    raceWindows,    \* SpecRace, history: per key and resetTime, the calls that wrote that window
    windowAdmitted, \* SpecFixed, SpecMonotonic, history: per key, the calls of its window that returned undefined
    admittedAt      \* SpecFixed, SpecMonotonic, history: per key and now, the calls that returned undefined

vars ==
    <<ipRequestMap, response, call, windowStart, windowCalls, scenario,
      pending, raceStarted, raceWindows, windowAdmitted, admittedAt>>

----------------------------------------------------------------------------
(* Program constants: the defaults of the parameters.                      *)

DefaultMaxRequests == 5

DefaultWindowMs == 60000

(* Bounds of the model.                                                    *)

\* A call is explored while its post-increment count is at most maxRequests + MaxOver.
MaxOver == 2

\* SpecRace: the calls that can be between their read and their write at once.
MaxInFlight == 2

\* SpecRace: the calls begun in a behaviour.
MaxRaceCalls == 4

\* SpecRace: the limit every call passes.
RaceLimit == 2

\* The values Date.now() takes: 1500 is 500 ms after 1000, 61500 more than 60 s after both.
Times == {1000, 1500, 61500}

WindowChoices == {500, DefaultWindowMs}

LimitChoices == {1, 2}

\* request.ip is string | undefined: a sequence of at most one string.
Requests == {[ip |-> <<"1.2.3.4">>], [ip |-> <<"">>], [ip |-> <<>>]}

----------------------------------------------------------------------------
(* Helpers: JavaScript expressions of the function.                        *)

\* Variant: rounds down (Math.floor) instead of up.
Floor(a, b) == a \div b

\* Math.ceil(a / b) for integers a and b > 0 (\div rounds towards minus infinity).
Ceil(a, b) == -((-a) \div b)

\* Variant: request.ip ?? 'unknown': only undefined falls back, the empty string is kept.
ClientIpNullish(request) == IF request.ip = <<>> THEN "unknown" ELSE request.ip[1]

\* request.ip || 'unknown': undefined and the empty string are falsy.
ClientIp(request) ==
    IF request.ip = <<>> \/ request.ip[1] = "" THEN "unknown" ELSE request.ip[1]

\* ipRequestMap.get(ip) || { count: 0, resetTime: now + windowMs }
GetOrDefault(map, ip, now, windowMs) ==
    IF ip \in DOMAIN map THEN map[ip] ELSE [count |-> 0, resetTime |-> now + windowMs]

\* Variant: the reset moves resetTime but forgets to zero count.
ResetKeepsCount(ipData, now, windowMs) ==
    IF now > ipData.resetTime
    THEN [count |-> ipData.count, resetTime |-> now + windowMs]
    ELSE ipData

\* Variant: the new window is measured from the old resetTime, not from now.
ResetFromOldWindow(ipData, now, windowMs) ==
    IF now > ipData.resetTime
    THEN [count |-> 0, resetTime |-> ipData.resetTime + windowMs]
    ELSE ipData

\* Variant: the window is reset at resetTime already (>= for >).
ResetAtBoundary(ipData, now, windowMs) ==
    IF now >= ipData.resetTime
    THEN [count |-> 0, resetTime |-> now + windowMs]
    ELSE ipData

\* Variant: sliding expiry: every call moves resetTime to now + windowMs.
ResetSliding(ipData, now, windowMs) ==
    IF now > ipData.resetTime
    THEN [count |-> 0, resetTime |-> now + windowMs]
    ELSE [count |-> ipData.count, resetTime |-> now + windowMs]

\* if (now > ipData.resetTime) { ipData.count = 0; ipData.resetTime = now + windowMs; }
ResetIfPassed(ipData, now, windowMs) ==
    IF now > ipData.resetTime
    THEN [count |-> 0, resetTime |-> now + windowMs]
    ELSE ipData

\* Variant: the increment is missing.
IncrementMissing(ipData) == ipData

\* Variant: the counter saturates at 2.
IncrementSaturating(ipData) ==
    IF ipData.count >= 2 THEN ipData ELSE [ipData EXCEPT !.count = @ + 1]

\* ipData.count += 1
Increment(ipData) == [ipData EXCEPT !.count = @ + 1]

\* Variant: one counter for all keys: the entry is stored under every key present.
MapSetAll(map, ip, ipData) == [k \in DOMAIN map \cup {ip} |-> ipData]

\* Variant: the map is replaced by one that holds the written key only.
MapSetFresh(map, ip, ipData) == [k \in {ip} |-> ipData]

\* ipRequestMap.set(ip, ipData)
MapSet(map, ip, ipData) ==
    [k \in DOMAIN map \cup {ip} |-> IF k = ip THEN ipData ELSE map[k]]

\* Variant: the limit is compared one too high.
ExceedsOffByOne(ipData, maxRequests) == ipData.count > maxRequests + 1

\* Variant: the call that reaches the limit is rejected already.
ExceedsOrEqual(ipData, maxRequests) == ipData.count >= maxRequests

\* the test of the rejection branch
Exceeds(ipData, maxRequests) == ipData.count > maxRequests

\* Variant: the difference is taken the wrong way round.
SecondsSinceReset(ipData, now) == Ceil(now - ipData.resetTime, 1000)

\* const secondsToReset = Math.ceil((ipData.resetTime - now) / 1000)
SecondsToReset(ipData, now) == Ceil(ipData.resetTime - now, 1000)

\* Variant: X-RateLimit-Reset carries the milliseconds, not the seconds.
RateLimitHeadersResetMs(ipData, maxRequests, now) ==
    [h \in {"X-RateLimit-Limit", "X-RateLimit-Remaining", "X-RateLimit-Reset", "Retry-After"} |->
        CASE h = "X-RateLimit-Limit" -> ToString(maxRequests)
          [] h = "X-RateLimit-Remaining" -> "0"
          [] h = "X-RateLimit-Reset" -> ToString(ipData.resetTime)
          [] h = "Retry-After" -> ToString(Ceil(ipData.resetTime - now, 1000))]

RateLimitHeaders(ipData, maxRequests, now) ==
    [h \in {"X-RateLimit-Limit", "X-RateLimit-Remaining", "X-RateLimit-Reset", "Retry-After"} |->
        CASE h = "X-RateLimit-Limit" -> ToString(maxRequests)
          [] h = "X-RateLimit-Remaining" -> "0"
          [] h = "X-RateLimit-Reset" -> ToString(Ceil(ipData.resetTime, 1000))
          [] h = "Retry-After" -> ToString(SecondsToReset(ipData, now))]

Message(secondsToReset) ==
    "Too many requests. Please try again in " \o ToString(secondsToReset) \o " seconds."

\* return undefined
Undefined == [type |-> "undefined"]

\* NextResponse.json({success: false, message}, {status: 429, headers})
TooManyRequests(ipData, maxRequests, now) ==
    [type |-> "NextResponse",
     status |-> 429,
     headers |-> RateLimitHeaders(ipData, maxRequests, now),
     body |-> [success |-> FALSE, message |-> Message(SecondsToReset(ipData, now))]]

\* Variant: the 429 response is built but not returned.
DecisionNotReturned(ipData, maxRequests, now) == Undefined

\* the value the function returns, given the entry it has just stored
Decision(ipData, maxRequests, now) ==
    IF Exceeds(ipData, maxRequests)
    THEN TooManyRequests(ipData, maxRequests, now)
    ELSE Undefined

\* the entry the function stores for ip
NextData(map, ip, now, windowMs) ==
    Increment(ResetIfPassed(GetOrDefault(map, ip, now, windowMs), now, windowMs))

----------------------------------------------------------------------------
(* History of the documented scenario: maxRequests = 5, windowMs = 60000,  *)
(* five calls of "1.2.3.4" at now = 1000, then a sixth at now = 1500, on   *)
(* an initially empty registry.  scenario = k: the calls so far are        *)
(* exactly the first k of these; -1: they are not.                         *)

ScenarioStep(k, request, maxRequests, windowMs, now) ==
    IF /\ k \in 0..5
       /\ request.ip = <<"1.2.3.4">>
       /\ maxRequests = 5
       /\ windowMs = 60000
       /\ now = (IF k < 5 THEN 1000 ELSE 1500)
    THEN k + 1
    ELSE -1

----------------------------------------------------------------------------
(* The state after module load.                                            *)

\* call before any call; prior is what ipRequestMap.get(ip) returned: at most one entry
NoCall ==
    [ip |-> "", request |-> [ip |-> <<>>], now |-> 0, maxRequests |-> 0, windowMs |-> 0,
     prior |-> <<>>]

\* ipRequestMap.get(ip), as a sequence: empty for undefined
MapGet(map, ip) == IF ip \in DOMAIN map THEN <<map[ip]>> ELSE <<>>

Init ==
    /\ ipRequestMap = [k \in {} |-> [count |-> 0, resetTime |-> 0]]
    /\ response = Undefined
    /\ call = NoCall
    /\ windowStart = [k \in {} |-> [now |-> 0, windowMs |-> 0, request |-> [ip |-> <<>>]]]
    /\ windowCalls = [k \in {} |-> 0]
    /\ scenario = 0
    /\ pending = EmptyBag
    /\ raceStarted = 0
    /\ raceWindows = [w \in {} |-> [calls |-> 0, admitted |-> 0, high |-> 0]]
    /\ windowAdmitted = [k \in {} |-> 0]
    /\ admittedAt = [k \in {} |-> 0]

\* history[ip] := value
Remember(history, ip, value) ==
    [k \in DOMAIN history \cup {ip} |-> IF k = ip THEN value ELSE history[k]]

\* The call (re)starts the window of ip: no entry yet, or the stored resetTime has passed.
StartsWindow(map, ip, now) == ip \notin DOMAIN map \/ now > map[ip].resetTime

(* rateLimitMiddleware(request, maxRequests, windowMs) with Date.now() = now. *)
RateLimitMiddleware(request, maxRequests, windowMs, now) ==
    LET ip == ClientIp(request)
        ipData == NextData(ipRequestMap, ip, now, windowMs)
        starts == StartsWindow(ipRequestMap, ip, now)
    IN  /\ ipData.count <= maxRequests + MaxOver
        /\ ipRequestMap' = MapSet(ipRequestMap, ip, ipData)
        /\ response' = Decision(ipData, maxRequests, now)
        /\ call' = [ip |-> ip, request |-> request, now |-> now,
                    maxRequests |-> maxRequests, windowMs |-> windowMs,
                    prior |-> MapGet(ipRequestMap, ip)]
        /\ windowStart' = Remember(windowStart, ip,
                IF starts THEN [now |-> now, windowMs |-> windowMs, request |-> request]
                          ELSE windowStart[ip])
        /\ windowCalls' = Remember(windowCalls, ip,
                IF starts THEN 1 ELSE windowCalls[ip] + 1)
        /\ scenario' = ScenarioStep(scenario, request, maxRequests, windowMs, now)
        /\ UNCHANGED <<pending, raceStarted, raceWindows>>

Next ==
    \E request \in Requests, maxRequests \in LimitChoices,
       windowMs \in WindowChoices, now \in Times :
        /\ RateLimitMiddleware(request, maxRequests, windowMs, now)
        /\ UNCHANGED <<windowAdmitted, admittedAt>>

Spec == Init /\ [][Next]_vars

(* Every call leaves maxRequests and windowMs to their defaults.           *)
NextDefault ==
    \E request \in Requests, now \in Times :
        /\ RateLimitMiddleware(request, DefaultMaxRequests, DefaultWindowMs, now)
        /\ UNCHANGED <<windowAdmitted, admittedAt>>

SpecDefault == Init /\ [][NextDefault]_vars

(* One maxRequests and one windowMs for all calls: the first call chooses  *)
(* them, every later call passes the same.  The calls of each window that  *)
(* returned undefined are counted.                                         *)
FixedCall(request, maxRequests, windowMs, now) ==
    LET ip == ClientIp(request)
        inWindow == IF StartsWindow(ipRequestMap, ip, now) THEN 0 ELSE windowAdmitted[ip]
    IN  /\ call = NoCall \/ (maxRequests = call.maxRequests /\ windowMs = call.windowMs)
        /\ RateLimitMiddleware(request, maxRequests, windowMs, now)
        /\ windowAdmitted' = Remember(windowAdmitted, ip,
                IF response' = Undefined THEN inWindow + 1 ELSE inWindow)

NextFixed ==
    \E request \in Requests, maxRequests \in LimitChoices \cup {DefaultMaxRequests},
       windowMs \in WindowChoices, now \in Times :
        /\ FixedCall(request, maxRequests, windowMs, now)
        /\ UNCHANGED admittedAt

SpecFixed == Init /\ [][NextFixed]_vars

(* As SpecFixed, with Date.now() never stepping back; the calls that       *)
(* returned undefined are counted per key and value of now.                *)
\* SpecMonotonic: with windowMs = 500, three windows back to back (1000, 1501, 2002).
BurstTimes == Times \cup {1501, 2002}

AdmittedAt(ip, now) == IF <<ip, now>> \in DOMAIN admittedAt THEN admittedAt[<<ip, now>>] ELSE 0

NextMonotonic ==
    \E request \in Requests, maxRequests \in LimitChoices,
       windowMs \in WindowChoices, now \in BurstTimes :
        /\ now >= call.now
        /\ FixedCall(request, maxRequests, windowMs, now)
        /\ admittedAt' =
              IF response' = Undefined
              THEN Remember(admittedAt, <<ClientIp(request), now>>,
                            AdmittedAt(ClientIp(request), now) + 1)
              ELSE admittedAt

SpecMonotonic == Init /\ [][NextMonotonic]_vars

----------------------------------------------------------------------------
(* The same function on a host that runs calls concurrently without a      *)
(* lock: the read of the entry and the rest of the body (reset, increment, *)
(* write-back, decision, on the copy that was read) are separate steps.    *)

ReadEntry(request, maxRequests, windowMs, now) ==
    LET ip == ClientIp(request)
        read == [ip |-> ip, request |-> request, now |-> now, maxRequests |-> maxRequests,
                 windowMs |-> windowMs, prior |-> MapGet(ipRequestMap, ip),
                 ipData |-> GetOrDefault(ipRequestMap, ip, now, windowMs)]
    IN  /\ BagCardinality(pending) < MaxInFlight
        /\ raceStarted < MaxRaceCalls
        /\ pending' = pending (+) SetToBag({read})
        /\ raceStarted' = raceStarted + 1
        /\ UNCHANGED <<ipRequestMap, response, call, windowStart, windowCalls, scenario,
                       raceWindows, windowAdmitted, admittedAt>>

\* history: one more call has written count into the window w = <<ip, resetTime>>
LogWrite(log, w, count, admitted) ==
    LET old == IF w \in DOMAIN log THEN log[w] ELSE [calls |-> 0, admitted |-> 0, high |-> 0]
        new == [calls |-> old.calls + 1,
                admitted |-> old.admitted + (IF admitted THEN 1 ELSE 0),
                high |-> IF count > old.high THEN count ELSE old.high]
    IN  [k \in DOMAIN log \cup {w} |-> IF k = w THEN new ELSE log[k]]

WriteBack(p) ==
    LET ipData == Increment(ResetIfPassed(p.ipData, p.now, p.windowMs))
    IN  /\ BagIn(p, pending)
        /\ ipRequestMap' = MapSet(ipRequestMap, p.ip, ipData)
        /\ response' = Decision(ipData, p.maxRequests, p.now)
        /\ call' = [ip |-> p.ip, request |-> p.request, now |-> p.now,
                    maxRequests |-> p.maxRequests, windowMs |-> p.windowMs,
                    prior |-> p.prior]
        /\ raceWindows' = LogWrite(raceWindows, <<p.ip, ipData.resetTime>>, ipData.count,
                                   ~Exceeds(ipData, p.maxRequests))
        /\ pending' = pending (-) SetToBag({p})
        /\ UNCHANGED <<windowStart, windowCalls, scenario, raceStarted,
                       windowAdmitted, admittedAt>>

NextRace ==
    \/ \E request \in Requests, now \in Times :
           ReadEntry(request, RaceLimit, DefaultWindowMs, now)
    \/ \E p \in BagToSet(pending) : WriteBack(p)

SpecRace == Init /\ [][NextRace]_vars

----------------------------------------------------------------------------
(* Properties.                                                             *)

Rejected == response.type = "NextResponse" /\ response.status = 429

Admitted == response = Undefined

\* The last call was made for ip, which therefore has an entry.
Called(ip) == call.ip = ip /\ ip \in DOMAIN ipRequestMap

(* C1: a call that is at least the (maxRequests + 1)-th of its key's       *)
(* window, counting the call that (re)started the window and with          *)
(* maxRequests the limit this call passes, returns the 429 rejection;      *)
(* this covers the (maxRequests + 1)-th call and every later call of the   *)
(* window under a fixed limit.                                             *)
C1_OverLimitRejected ==
    \A ip \in DOMAIN ipRequestMap :
        (Called(ip) /\ windowCalls[ip] > call.maxRequests) => Rejected

C1_Witness ==
    /\ Called("1.2.3.4")
    /\ windowCalls["1.2.3.4"] = call.maxRequests + 1
    /\ call.now <= ipRequestMap["1.2.3.4"].resetTime
    /\ call.now > windowStart["1.2.3.4"].now
    /\ Rejected

(* C2: a call that is the k-th of its key's window with k <= maxRequests   *)
(* returns undefined (pass-through), whatever calls of other keys were     *)
(* interleaved.                                                            *)
C2_WithinLimitAdmitted ==
    \A ip \in DOMAIN ipRequestMap :
        (Called(ip) /\ windowCalls[ip] <= call.maxRequests) => Admitted

C2_Witness ==
    /\ Called("1.2.3.4")
    /\ call.maxRequests = 2
    /\ windowCalls["1.2.3.4"] = 2
    /\ "unknown" \in DOMAIN ipRequestMap
    /\ windowStart["unknown"].now > windowStart["1.2.3.4"].now
    /\ Admitted

(* C3: a call for a key whose stored resetTime is before now stores        *)
(* {count: 1, resetTime: now + windowMs} and returns undefined, whatever   *)
(* the stored count was.                                                   *)
C3_ResetAfterWindow ==
    (call.prior # <<>> /\ call.now > call.prior[1].resetTime) =>
        /\ ipRequestMap[call.ip] = [count |-> 1, resetTime |-> call.now + call.windowMs]
        /\ Admitted

C3_Witness ==
    /\ call.prior # <<>>
    /\ call.now > call.prior[1].resetTime
    /\ call.maxRequests = 1
    /\ call.prior[1].count > call.maxRequests + 1
    /\ ipRequestMap[call.ip].count = 1
    /\ Admitted

(* C4: a call for one key leaves the entry of every other key, and its     *)
(* absence, unchanged; and what a call returns and stores is determined    *)
(* by its own key's prior entry and its inputs alone.                      *)
OwnOutcome ==
    call # NoCall =>
        LET own == IF call.prior = <<>>
                   THEN [k \in {} |-> [count |-> 0, resetTime |-> 0]]
                   ELSE [k \in {call.ip} |-> call.prior[1]]
            ipData == NextData(own, call.ip, call.now, call.windowMs)
        IN  /\ ipRequestMap[call.ip] = ipData
            /\ response = Decision(ipData, call.maxRequests, call.now)

OthersUnchanged ==
    /\ \A k \in DOMAIN ipRequestMap :
            k # call'.ip => k \in DOMAIN ipRequestMap' /\ ipRequestMap'[k] = ipRequestMap[k]
    /\ DOMAIN ipRequestMap' \subseteq DOMAIN ipRequestMap \cup {call'.ip}

C4_KeysIndependent == [][OthersUnchanged]_vars /\ []OwnOutcome

C4_Witness ==
    /\ Called("unknown")
    /\ "1.2.3.4" \in DOMAIN ipRequestMap
    /\ ipRequestMap["1.2.3.4"].count > ipRequestMap["unknown"].count
    /\ windowCalls["unknown"] = 2
    /\ windowStart["unknown"].now < windowStart["1.2.3.4"].now
    /\ Admitted

(* C5 as stated: on every rejection resetTime - now >= 0, and the          *)
(* Retry-After value ceil((resetTime - now)/1000), which is also the N of  *)
(* the message, is at least 0 and at most ceil(windowMs/1000) of the call  *)
(* that set resetTime, also when Date.now() goes backwards between calls.  *)
RetryAfter == Ceil(ipRequestMap[call.ip].resetTime - call.now, 1000)

RetryAfterReported ==
    /\ response.headers["Retry-After"] = ToString(RetryAfter)
    /\ response.body.message =
           "Too many requests. Please try again in " \o ToString(RetryAfter) \o " seconds."

C5_RetryAfterWithinWindow ==
    Rejected =>
        /\ ipRequestMap[call.ip].resetTime - call.now >= 0
        /\ RetryAfterReported
        /\ RetryAfter >= 0
        /\ RetryAfter <= Ceil(windowStart[call.ip].windowMs, 1000)

(* C5, amended: on every rejection resetTime - now >= 0 and the            *)
(* Retry-After value ceil((resetTime - now)/1000), also the N of the       *)
(* message, is at least 0; it is at most ceil(windowMs/1000) of the call   *)
(* that set resetTime when now is not earlier than the now of that call.   *)
C5_RetryAfterNonNegative ==
    Rejected =>
        /\ ipRequestMap[call.ip].resetTime - call.now >= 0
        /\ RetryAfterReported
        /\ RetryAfter >= 0
        /\ call.now >= windowStart[call.ip].now =>
               RetryAfter <= Ceil(windowStart[call.ip].windowMs, 1000)

C5_Witness ==
    /\ Rejected
    /\ call.now > windowStart[call.ip].now
    /\ windowStart[call.ip].windowMs = DefaultWindowMs
    /\ RetryAfter = 60
    /\ response.headers["Retry-After"] = "60"

(* C6: every call whose post-increment count exceeds maxRequests returns   *)
(* status 429 with X-RateLimit-Limit = maxRequests, X-RateLimit-Remaining  *)
(* = 0, X-RateLimit-Reset = ceil(resetTime/1000) and Retry-After =         *)
(* ceil((resetTime - now)/1000), resetTime being the stored one; the       *)
(* message carries the Retry-After number.                                 *)
C6_RejectionMetadata ==
    (call # NoCall /\ ipRequestMap[call.ip].count > call.maxRequests) =>
        LET resetTime == ipRequestMap[call.ip].resetTime
            seconds == Ceil(resetTime - call.now, 1000)
        IN  /\ response.type = "NextResponse"
            /\ response.status = 429
            /\ response.headers["X-RateLimit-Limit"] = ToString(call.maxRequests)
            /\ response.headers["X-RateLimit-Remaining"] = "0"
            /\ response.headers["X-RateLimit-Reset"] = ToString(Ceil(resetTime, 1000))
            /\ response.headers["Retry-After"] = ToString(seconds)
            /\ DOMAIN response.headers =
                   {"X-RateLimit-Limit", "X-RateLimit-Remaining", "X-RateLimit-Reset",
                    "Retry-After"}
            /\ response.body =
                   [success |-> FALSE,
                    message |-> "Too many requests. Please try again in "
                                    \o response.headers["Retry-After"] \o " seconds."]

C6_Witness ==
    /\ Rejected
    /\ call.maxRequests = 2
    /\ call.now = 1500
    /\ ipRequestMap[call.ip].resetTime = 61000
    /\ response.headers["X-RateLimit-Limit"] = "2"
    /\ response.headers["X-RateLimit-Reset"] = "61"
    /\ response.headers["Retry-After"] = "60"

(* C7: a request without an IP (undefined or empty) is counted under the   *)
(* key "unknown" and no other key is created for it, so these requests     *)
(* share one counter: the one that is at least the (maxRequests + 1)-th of *)
(* the window of "unknown" is rejected; each such call returns undefined   *)
(* or the 429 response.                                                    *)
Unidentified(request) == request.ip = <<>> \/ request.ip = <<"">>

C7_UnknownShared ==
    /\ DOMAIN ipRequestMap \subseteq {"unknown", "1.2.3.4"}
    /\ Unidentified(call.request) /\ call # NoCall =>
          /\ call.ip = "unknown"
          /\ "unknown" \in DOMAIN ipRequestMap
          /\ ipRequestMap["unknown"].count = windowCalls["unknown"]
          /\ windowCalls["unknown"] > call.maxRequests => Rejected
          /\ Rejected \/ Admitted

C7_Witness ==
    /\ call.request = [ip |-> <<"">>]
    /\ "unknown" \in DOMAIN ipRequestMap
    /\ windowStart["unknown"].request = [ip |-> <<>>]
    /\ call.maxRequests = 1
    /\ ipRequestMap["unknown"].count = 2
    /\ Rejected

(* C8: with the defaults maxRequests = 5 and windowMs = 60000 and an       *)
(* empty registry, each of five calls of one client at now = 1000 returns  *)
(* undefined and leaves count = 1..5 with resetTime = 61000; a sixth call  *)
(* at now = 1500 is rejected with Retry-After 60 and leaves count = 6.     *)
C8_Scenario ==
    /\ scenario \in 1..5 =>
          /\ Admitted
          /\ ipRequestMap["1.2.3.4"] = [count |-> scenario, resetTime |-> 61000]
    /\ scenario = 6 =>
          /\ Rejected
          /\ response.headers["Retry-After"] = "60"
          /\ response.body.message = "Too many requests. Please try again in 60 seconds."
          /\ ipRequestMap["1.2.3.4"] = [count |-> 6, resetTime |-> 61000]

C8_Witness ==
    /\ scenario = 6
    /\ DOMAIN ipRequestMap = {"1.2.3.4"}
    /\ call.now = 1500
    /\ windowCalls["1.2.3.4"] = 6

(* C10: every stored resetTime is now + windowMs of the call that created  *)
(* the entry or last reset its window; the first call for a key without    *)
(* entry stores resetTime = now + windowMs.                                *)
C10_ResetTimeAhead ==
    /\ \A ip \in DOMAIN ipRequestMap :
          ipRequestMap[ip].resetTime = windowStart[ip].now + windowStart[ip].windowMs
    /\ (call # NoCall /\ call.prior = <<>>) =>
          ipRequestMap[call.ip].resetTime = call.now + call.windowMs

C10_Witness ==
    /\ call.prior # <<>>
    /\ call.now > call.prior[1].resetTime
    /\ call.windowMs = 500
    /\ call.prior[1].resetTime = 61000
    /\ ipRequestMap[call.ip].resetTime = 62000

(* C9: with the read and the write-back as separate steps, a state is      *)
(* reachable (C9_Witness) in which two calls of one key read the same      *)
(* count maxRequests - 1 and are both admitted, so that maxRequests + 1    *)
(* calls of one window are admitted while the stored count is only         *)
(* maxRequests.  That is the only way past the limit: whenever more than   *)
(* maxRequests calls of one window were admitted, fewer distinct counts    *)
(* than calls were written in that window (an increment was lost).         *)
C9_OverAdmissionIsLostIncrement ==
    \A w \in DOMAIN raceWindows :
        raceWindows[w].admitted > RaceLimit => raceWindows[w].high < raceWindows[w].calls

C9_Witness ==
    /\ call.ip = "1.2.3.4"
    /\ call.prior # <<>>
    /\ call.prior[1].count = RaceLimit - 1
    /\ ipRequestMap["1.2.3.4"].count = RaceLimit
    /\ Admitted
    /\ raceWindows[<<"1.2.3.4", ipRequestMap["1.2.3.4"].resetTime>>] =
           [calls |-> RaceLimit + 1, admitted |-> RaceLimit + 1, high |-> RaceLimit]

(* C11: every stored entry has count >= 1, hence count >= 0: an entry is   *)
(* stored only after the increment.                                        *)
C11_CountPositive ==
    \A ip \in DOMAIN ipRequestMap :
        ipRequestMap[ip].count >= 1 /\ ipRequestMap[ip].count >= 0

C11_Witness ==
    /\ call.prior # <<>>
    /\ call.prior[1].count > 1
    /\ call.now > call.prior[1].resetTime
    /\ ipRequestMap[call.ip].count = 1

(* C13: the map starts empty; no step removes a key and every call leaves  *)
(* an entry under its own key; so the keys only grow, and they are exactly *)
(* the keys that have made a call.                                         *)
KeysGrow ==
    /\ DOMAIN ipRequestMap \subseteq DOMAIN ipRequestMap'
    /\ call'.ip \in DOMAIN ipRequestMap'
    /\ DOMAIN ipRequestMap' \subseteq DOMAIN ipRequestMap \cup {call'.ip}

C13_EntryLifecycle ==
    /\ DOMAIN ipRequestMap = {}
    /\ [][KeysGrow]_vars
    /\ [](DOMAIN ipRequestMap = DOMAIN windowCalls)

C13_Witness ==
    /\ DOMAIN ipRequestMap = {"1.2.3.4", "unknown"}
    /\ call.ip = "unknown"
    /\ call.prior # <<>>
    /\ call.now > call.prior[1].resetTime
    /\ windowCalls["1.2.3.4"] >= 2

(* C14: a call at now = resetTime of its key's entry gets no fresh window: *)
(* it stores count + 1 with resetTime unchanged, and is rejected with      *)
(* Retry-After 0 when the stored count was already maxRequests or more;    *)
(* a fresh window (count = 1) is stored only when now > resetTime.         *)
C14_BoundaryStrict ==
    call.prior # <<>> =>
        LET prior == call.prior[1]
            ipData == ipRequestMap[call.ip]
        IN  /\ call.now = prior.resetTime =>
                  /\ ipData = [count |-> prior.count + 1, resetTime |-> prior.resetTime]
                  /\ prior.count >= call.maxRequests =>
                        Rejected /\ response.headers["Retry-After"] = "0"
            /\ call.now <= prior.resetTime => ipData.count = prior.count + 1
            /\ call.now > prior.resetTime => ipData.count = 1

C14_Witness ==
    /\ call.prior # <<>>
    /\ call.now = call.prior[1].resetTime
    /\ call.prior[1].count >= call.maxRequests
    /\ ipRequestMap[call.ip].count = call.prior[1].count + 1
    /\ Rejected
    /\ response.headers["Retry-After"] = "0"

(* C15: every call, in every reachable state and for every request, now,   *)
(* maxRequests and windowMs, can be taken and returns exactly one of       *)
(* undefined and the 429 response: the 429 response exactly when the       *)
(* count it stored is greater than maxRequests.                            *)
CallCompletes ==
    \A request \in Requests, maxRequests \in LimitChoices,
       windowMs \in WindowChoices, now \in Times :
        LET count == IF ClientIp(request) \in DOMAIN ipRequestMap
                        /\ now <= ipRequestMap[ClientIp(request)].resetTime
                     THEN ipRequestMap[ClientIp(request)].count + 1
                     ELSE 1
        IN  count <= maxRequests + MaxOver =>
                ENABLED RateLimitMiddleware(request, maxRequests, windowMs, now)

C15_DecisionRule ==
    /\ CallCompletes
    /\ call # NoCall =>
          /\ Rejected <=> ipRequestMap[call.ip].count > call.maxRequests
          /\ Admitted <=> ipRequestMap[call.ip].count <= call.maxRequests
          /\ Rejected # Admitted
          /\ response.type \in {"undefined", "NextResponse"}

C15_Witness ==
    /\ Rejected
    /\ call.prior # <<>>
    /\ call.prior[1].count = call.maxRequests
    /\ ipRequestMap[call.ip].count = call.maxRequests + 1
    /\ DOMAIN ipRequestMap = {"1.2.3.4", "unknown"}

(* C16: the stored count of a key is the number of calls made for it since *)
(* and with the call that created its entry or last reset its window,      *)
(* rejected calls included: a rejected call stores count + 1 like any      *)
(* other, so the count is not capped at the limit.                         *)
C16_CountIsCallsInWindow ==
    /\ \A ip \in DOMAIN ipRequestMap : ipRequestMap[ip].count = windowCalls[ip]
    /\ (Rejected /\ call.prior # <<>> /\ call.now <= call.prior[1].resetTime) =>
          ipRequestMap[call.ip].count = call.prior[1].count + 1

C16_Witness ==
    /\ Rejected
    /\ call.prior # <<>>
    /\ call.prior[1].count > call.maxRequests
    /\ ipRequestMap[call.ip].count = call.prior[1].count + 1
    /\ windowCalls[call.ip] = call.maxRequests + 2

(* C18: a call for a key that has an entry with now <= resetTime leaves    *)
(* resetTime unchanged, admitted or rejected and whatever windowMs it      *)
(* passes; resetTime changes only when now > resetTime, and then to a      *)
(* greater value.                                                          *)
C18_WindowNotExtended ==
    call.prior # <<>> =>
        LET prior == call.prior[1]
            ipData == ipRequestMap[call.ip]
        IN  /\ call.now <= prior.resetTime => ipData.resetTime = prior.resetTime
            /\ ipData.resetTime # prior.resetTime =>
                  call.now > prior.resetTime /\ ipData.resetTime > prior.resetTime

C18_Witness ==
    /\ Rejected
    /\ call.prior # <<>>
    /\ call.now > windowStart[call.ip].now
    /\ call.windowMs # windowStart[call.ip].windowMs
    /\ call.now + call.windowMs # call.prior[1].resetTime
    /\ ipRequestMap[call.ip].resetTime = call.prior[1].resetTime

(* C17: with each call one indivisible step and one maxRequests and        *)
(* windowMs for all calls, in every interleaving of the calls of all keys  *)
(* the calls admitted for a key between a start of its window and the next *)
(* reset never number more than maxRequests, and no increment is lost:     *)
(* the stored count is the number of calls of the window.                  *)
C17_AtomicLimitEnforced ==
    \A ip \in DOMAIN ipRequestMap :
        /\ windowAdmitted[ip] <= call.maxRequests
        /\ ipRequestMap[ip].count = windowCalls[ip]
        /\ windowAdmitted[ip] <= windowCalls[ip]

C17_Witness ==
    /\ DOMAIN ipRequestMap = {"1.2.3.4", "unknown"}
    /\ call.ip = "1.2.3.4"
    /\ Rejected
    /\ windowAdmitted["1.2.3.4"] = call.maxRequests
    /\ windowCalls["1.2.3.4"] = call.maxRequests + 2
    /\ windowAdmitted["unknown"] = call.maxRequests
    /\ windowStart["unknown"].now > windowStart["1.2.3.4"].now

(* C19: with one maxRequests and windowMs for all calls, each call one     *)
(* indivisible step and now never decreasing, the calls admitted for a key *)
(* with now in an interval [t, t + windowMs] number at most                *)
(* 2 * maxRequests.  The intervals that start at a value now takes are     *)
(* checked: an interval that starts elsewhere holds no more admitted calls *)
(* than the one that starts at its first admitted call.                    *)
RECURSIVE AdmittedIn(_, _)
AdmittedIn(ip, times) ==
    IF times = {}
    THEN 0
    ELSE LET now == CHOOSE n \in times : TRUE
         IN  AdmittedAt(ip, now) + AdmittedIn(ip, times \ {now})

C19_BurstBound ==
    \A ip \in DOMAIN ipRequestMap, t \in BurstTimes :
        AdmittedIn(ip, {now \in BurstTimes : t <= now /\ now <= t + call.windowMs})
            <= 2 * call.maxRequests

\* Three windows of 500 ms back to back; [1500, 2000] meets two of them and holds 3 admitted calls.
C19_Witness ==
    /\ call.ip = "1.2.3.4"
    /\ call.maxRequests = 2
    /\ call.windowMs = 500
    /\ windowStart["1.2.3.4"].now = 2002
    /\ AdmittedAt("1.2.3.4", 1000) = 1
    /\ AdmittedAt("1.2.3.4", 1500) = 1
    /\ AdmittedAt("1.2.3.4", 1501) = 2
    /\ AdmittedAt("1.2.3.4", 2002) = 2
    /\ AdmittedIn("1.2.3.4", {now \in BurstTimes : 1500 <= now /\ now <= 1500 + 500}) = 3

====
